---- MODULE Spec2Model ----
(***************************************************************************)
(* net::MessageProcessor of zordzman-plus-plus: whitespace-separated,      *)
(* JSON-encoded messages over a stream socket, with a receive buffer, an   *)
(* inbound and an outbound queue and a registry of per-type handlers.      *)
(*                                                                         *)
(* Bytes are one-character strings, byte strings are sequences of them.    *)
(* JSON values are records [k |-> kind, v |-> payload].                    *)
(***************************************************************************)
EXTENDS Integers, Sequences, FiniteSets, TLC

(***************************************************************************)
(* json11 values (common/extlib/json11)                                    *)
(***************************************************************************)
JNull == [k |-> "null", v |-> 0]

JBool(b) == [k |-> "bool", v |-> b]

JNum(n) == [k |-> "num", v |-> n]

JStr(s) == [k |-> "str", v |-> s]

JObj(f) == [k |-> "obj", v |-> f]

JArr(a) == [k |-> "arr", v |-> a]

\* The empty std::map of a JSON object.
EmptyMap == [x \in {} |-> JNull]

\* Json::is_string
is_string(j) == j.k = "str"

\* Json::string_value
string_value(j) == IF j.k = "str" THEN j.v ELSE <<>>

\* Json::operator[](const string &): the member of an object, the static
\* null value for a missing key and for every value that is not an object.
Member(j, key) ==
    IF j.k = "obj" /\ key \in DOMAIN j.v THEN j.v[key] ELSE JNull

(***************************************************************************)
(* Byte strings used by the protocol                                       *)
(***************************************************************************)
Q == "\""

K_type == <<"t", "y", "p", "e">>

K_entity == <<"e", "n", "t", "i", "t", "y">>

Digits == <<"0", "1", "2", "3", "4", "5", "6", "7", "8", "9">>

IsDigit(c) == \E d \in 1..10 : Digits[d] = c

DigitVal(c) == (CHOOSE d \in 1..10 : Digits[d] = c) - 1

\* Lexicographic order of std::string (std::map iterates its keys in it);
\* the bytes of the keys that occur are ordered by their ASCII codes.
Ascii(c) ==
    CASE c = "a" -> 97 [] c = "b" -> 98 [] c = "c" -> 99 [] c = "e" -> 101
      [] c = "i" -> 105 [] c = "n" -> 110 [] c = "p" -> 112 [] c = "t" -> 116
      [] c = "x" -> 120 [] c = "y" -> 121 [] OTHER -> 0

RECURSIVE StrLess(_, _)
StrLess(s, t) ==
    IF t = <<>> THEN FALSE
    ELSE IF s = <<>> THEN TRUE
    ELSE IF Ascii(Head(s)) /= Ascii(Head(t)) THEN Ascii(Head(s)) < Ascii(Head(t))
    ELSE StrLess(Tail(s), Tail(t))

(***************************************************************************)
(* Json::dump                                                              *)
(***************************************************************************)
RECURSIVE DumpNat(_)
DumpNat(n) ==
    IF n < 10 THEN <<Digits[n + 1]>>
    ELSE DumpNat(n \div 10) \o <<Digits[(n % 10) + 1]>>

DumpInt(n) == IF n < 0 THEN <<"-">> \o DumpNat(0 - n) ELSE DumpNat(n)

\* Strings are dumped between quotes; the bytes that occur need no escape.
DumpString(s) == <<Q>> \o s \o <<Q>>

RECURSIVE dump(_)
RECURSIVE DumpMembers(_, _)
RECURSIVE DumpItems(_)
dump(j) ==
    CASE j.k = "null" -> <<"n", "u", "l", "l">>
      [] j.k = "bool" -> IF j.v THEN <<"t", "r", "u", "e">>
                         ELSE <<"f", "a", "l", "s", "e">>
      [] j.k = "num" -> DumpInt(j.v)
      [] j.k = "str" -> DumpString(j.v)
      [] j.k = "obj" -> <<"{">> \o DumpMembers(j.v, DOMAIN j.v) \o <<"}">>
      [] j.k = "arr" -> <<"[">> \o DumpItems(j.v) \o <<"]">>

\* The members of an object in key order, "key": value joined by ", ".
DumpMembers(f, keys) ==
    IF keys = {} THEN <<>>
    ELSE LET key == CHOOSE x \in keys : \A y \in keys \ {x} : StrLess(x, y)
             rest == keys \ {key}
         IN DumpString(key) \o <<":", " ">> \o dump(f[key])
              \o (IF rest = {} THEN <<>> ELSE <<",", " ">>)
              \o DumpMembers(f, rest)

DumpItems(a) ==
    IF a = <<>> THEN <<>>
    ELSE dump(Head(a)) \o (IF Len(a) = 1 THEN <<>> ELSE <<",", " ">>)
           \o DumpItems(Tail(a))

(***************************************************************************)
(* json11's JsonParser.  A parse result is [failed, i, val]: i is the      *)
(* index of the next byte to read (the first byte has index 1).            *)
(***************************************************************************)
max_depth == 200

IsWs(c) == c \in {" ", "\r", "\n", "\t"}

\* str[i] of a std::string: the terminating NUL at i = size().
CharAt(str, i) == IF i <= Len(str) THEN str[i] ELSE "NUL"

Fail(i) == [failed |-> TRUE, i |-> i, val |-> JNull]

Ok(i, val) == [failed |-> FALSE, i |-> i, val |-> val]

RECURSIVE consume_whitespace(_, _)
consume_whitespace(str, i) ==
    IF i <= Len(str) /\ IsWs(str[i]) THEN consume_whitespace(str, i + 1) ELSE i

\* JsonParser::expect: the literal must start at i.
expect(str, i, lit, val) ==
    IF i + Len(lit) - 1 <= Len(str) /\ SubSeq(str, i, i + Len(lit) - 1) = lit
    THEN Ok(i + Len(lit), val)
    ELSE Fail(i)

\* JsonParser::parse_string, entered after the opening quote.  A byte below
\* 0x20 is an error; the bytes that occur contain no backslash.
RECURSIVE parse_string(_, _, _)
parse_string(str, i, out) ==
    IF i > Len(str) THEN Fail(i)
    ELSE IF str[i] = Q THEN Ok(i + 1, JStr(out))
    ELSE IF str[i] \in {"\r", "\n", "\t"} THEN Fail(i + 1)
    ELSE parse_string(str, i + 1, out \o <<str[i]>>)

RECURSIVE ScanDigits(_, _, _)
ScanDigits(str, i, acc) ==
    IF IsDigit(CharAt(str, i))
    THEN ScanDigits(str, i + 1, acc * 10 + DigitVal(str[i]))
    ELSE [i |-> i, n |-> acc]

\* JsonParser::parse_number, integer part (the bytes that occur contain no
\* '.', 'e' or 'E' after a digit, so no fraction and no exponent).
parse_number(str, i) ==
    LET neg == CharAt(str, i) = "-"
        j == IF neg THEN i + 1 ELSE i
        c == CharAt(str, j)
    IN IF c = "0"
       THEN IF IsDigit(CharAt(str, j + 1)) THEN Fail(j + 1)
            ELSE Ok(j + 1, JNum(0))
       ELSE IF IsDigit(c)
       THEN LET r == ScanDigits(str, j, 0)
            IN Ok(r.i, JNum(IF neg THEN 0 - r.n ELSE r.n))
       ELSE Fail(j)

RECURSIVE parse_json(_, _, _)
RECURSIVE ParseMembers(_, _, _, _)
RECURSIVE ParseItems(_, _, _, _)
\* JsonParser::parse_json
parse_json(str, i, depth) ==
    IF depth > max_depth THEN Fail(i)
    ELSE LET j == consume_whitespace(str, i)
         IN IF j > Len(str) THEN Fail(j)
            ELSE LET ch == str[j]
                 IN CASE ch = "-" \/ IsDigit(ch) -> parse_number(str, j)
                      [] ch = "t" -> expect(str, j, <<"t", "r", "u", "e">>, JBool(TRUE))
                      [] ch = "f" -> expect(str, j, <<"f", "a", "l", "s", "e">>, JBool(FALSE))
                      [] ch = "n" -> expect(str, j, <<"n", "u", "l", "l">>, JNull)
                      [] ch = Q -> parse_string(str, j + 1, <<>>)
                      [] ch = "{" ->
                           LET t == consume_whitespace(str, j + 1)
                           IN IF t > Len(str) THEN Fail(t)
                              ELSE IF str[t] = "}" THEN Ok(t + 1, JObj(EmptyMap))
                              ELSE ParseMembers(str, t, depth, EmptyMap)
                      [] ch = "[" ->
                           LET t == consume_whitespace(str, j + 1)
                           IN IF t > Len(str) THEN Fail(t)
                              ELSE IF str[t] = "]" THEN Ok(t + 1, JArr(<<>>))
                              ELSE ParseItems(str, t, depth, <<>>)
                      [] OTHER -> Fail(j + 1)

\* The member loop of an object; str[t] is the token that must open a key.
ParseMembers(str, t, depth, data) ==
    IF str[t] /= Q THEN Fail(t + 1)
    ELSE LET key == parse_string(str, t + 1, <<>>)
         IN IF key.failed THEN key
            ELSE LET c == consume_whitespace(str, key.i)
                 IN IF c > Len(str) THEN Fail(c)
                    ELSE IF str[c] /= ":" THEN Fail(c + 1)
                    ELSE LET val == parse_json(str, c + 1, depth + 1)
                         IN IF val.failed THEN val
                            ELSE LET n == consume_whitespace(str, val.i)
                                     data2 == [x \in DOMAIN data \cup {key.val.v} |->
                                                 IF x = key.val.v THEN val.val ELSE data[x]]
                                 IN IF n > Len(str) THEN Fail(n)
                                    ELSE IF str[n] = "}" THEN Ok(n + 1, JObj(data2))
                                    ELSE IF str[n] /= "," THEN Fail(n + 1)
                                    ELSE LET m == consume_whitespace(str, n + 1)
                                         IN IF m > Len(str) THEN Fail(m)
                                            ELSE ParseMembers(str, m, depth, data2)

\* The element loop of an array; an element starts at t.
ParseItems(str, t, depth, data) ==
    LET val == parse_json(str, t, depth + 1)
    IN IF val.failed THEN val
       ELSE LET n == consume_whitespace(str, val.i)
            IN IF n > Len(str) THEN Fail(n)
               ELSE IF str[n] = "]" THEN Ok(n + 1, JArr(Append(data, val.val)))
               ELSE IF str[n] /= "," THEN Fail(n + 1)
               ELSE LET m == consume_whitespace(str, n + 1)
                    IN IF m > Len(str) THEN Fail(m)
                       ELSE ParseItems(str, m, depth, Append(data, val.val))

\* Json::parse_multi: values are parsed until the input is used up or a parse
\* fails; whitespace after a value is consumed.  The result is
\* [err, values]: err is TRUE exactly when the error string is non-empty.
RECURSIVE ParseMultiFrom(_, _, _)
ParseMultiFrom(str, i, vec) ==
    IF i > Len(str) THEN [err |-> FALSE, values |-> vec]
    ELSE LET r == parse_json(str, i, 0)
         IN IF r.failed THEN [err |-> TRUE, values |-> Append(vec, r.val)]
            ELSE ParseMultiFrom(str, consume_whitespace(str, r.i), Append(vec, r.val))

parse_multi(str) == ParseMultiFrom(str, 1, <<>>)

(***************************************************************************)
(* Bounds of the model                                                     *)
(***************************************************************************)
\* Messages the peer serializes onto the stream.
MaxPeerMsgs == 2

\* send calls made by the owner of the processor.
MaxSends == 2

\* addHandler calls.
MaxHandlers == 2

(***************************************************************************)
(* Messages, handlers and streams                                          *)
(***************************************************************************)
T_a == <<"a">>

T_b == <<"b">>

MessageTypes == {T_a, T_b}

\* The (type, entity) tuple held by both queues.
Msg(type, entity) == [type |-> type, entity |-> entity]

\* The wire envelope built by flushSendQueue.
Envelope(type, entity) ==
    JObj([x \in {K_type, K_entity} |-> IF x = K_type THEN JStr(type) ELSE entity])

\* encoded_message of flushSendQueue: the dumped envelope and one space.
Encode(m) == dump(Envelope(m.type, m.entity)) \o <<" ">>

RECURSIVE EncodeAll(_)
EncodeAll(ms) == IF ms = <<>> THEN <<>> ELSE Encode(Head(ms)) \o EncodeAll(Tail(ms))

SeqsUpTo(S, n) == UNION {[1..k -> S] : k \in 0..n}

\* What the peer and the owner send in the model.
SampleMsgs == {Msg(T_a, JNum(1)), Msg(T_b, JBool(TRUE))}

\* Context arguments of dispatch (Args ...).
ArgChoices == {7, 9}

\* Handlers the owner registers: "echo" takes the processor pointer and
\* answers every message with send("b", entity); "log" is a muted handler.
FullHandlers == {"echo"}

MutedHandlers == {"log"}

\* The message type by which a client announces its UDP port, and the type
\* of the server's answer.
T_udp == <<"n", "e", "t", ".", "u", "d", "p">>

T_udp_ack == T_udp \o <<".", "a", "c", "k">>

\* Server::handleNetUDP registered on a processor: it answers the port
\* announcement with send("net.udp.ack", true).
handleNetUDP(entity) == <<Msg(T_udp_ack, JBool(TRUE))>>

\* HandlerSends with a muted handler that replies like a full one.
HandlerSends_MutedReplies(h, entity) ==
    IF h.fn = "handleNetUDP" THEN handleNetUDP(entity)
    ELSE <<Msg(T_b, entity)>>

\* The sends a registered handler makes on the processor when it is invoked.
\* The wrapper of a muted handler drops the processor pointer.
HandlerSends(h, entity) ==
    IF h.muted THEN <<>>
    ELSE IF h.fn = "handleNetUDP" THEN handleNetUDP(entity)
    ELSE <<Msg(T_b, entity)>>

(***************************************************************************)
(* State                                                                   *)
(***************************************************************************)
VARIABLES
    m_buffer,        \* std::string m_buffer: its size() bytes
    m_handlers,      \* std::map<MessageType, std::vector<Handler>>
    m_ingress,       \* queue of [type, entity, id]; id is the arrival ordinal
    m_egress,        \* queue of [type, entity]
    pc,              \* "idle", or "flush" inside flushSendQueue's write loop
    encoded_message, \* flushSendQueue's local: the message being written
    sent,            \* flushSendQueue's local: bytes of it written so far
    sock_in,         \* bytes the peer has written that recv has not returned
    sock_out,        \* bytes the transport has accepted from ::send
    peer_msgs,       \* the messages the peer serialized, in order
    inbound_log,     \* every (type, entity) ever appended to m_ingress
    sent_log,        \* every (type, entity) passed to send, in call order
    calls,           \* every handler invocation, in order
    last_recv,       \* outcome of the recv of the most recent proccess call
    ret,             \* what the most recent proccess call returned
    write_failed     \* a ::send of the flushSendQueue call in progress returned -1

\* sys::TCPSocket, the client's socket wrapper, and the SDL_net sockets it
\* opens.  A handle is 0 (NULL) or the ordinal of the SDLNet_TCP_Open call
\* that returned it.
VARIABLES
    m_open,          \* bool m_open
    m_socket,        \* TCPsocket m_socket
    m_server,        \* IPaddress m_server: "unset", "resolved" or "none"
    opens,           \* successful SDLNet_TCP_Open calls so far
    closes,          \* closes[h]: SDLNet_TCP_Close calls made on handle h
    transmitted,     \* handles on which SDLNet_TCP_Send was called, in order
    tcp_ret          \* what the most recent TCPSocket call returned

tcpvars == <<m_open, m_socket, m_server, opens, closes, transmitted, tcp_ret>>

procvars == <<m_buffer, m_handlers, m_ingress, m_egress, pc, encoded_message,
              sent, sock_in, sock_out, peer_msgs, inbound_log, sent_log, calls,
              last_recv, ret, write_failed>>

vars == <<procvars, tcpvars>>

\* A TCPSocket before its first connectToHost: not open, no socket.
TCPSocketInit ==
    /\ m_open = FALSE
    /\ m_socket = 0
    /\ m_server = "unset"
    /\ opens = 0
    /\ closes = <<>>
    /\ transmitted = <<>>
    /\ tcp_ret = "none"

\* m_buffer.reserve(8192)
Capacity == 8192

\* The byte streams a peer produces: up to MaxPeerMsgs serialized messages.
PeerStreams == SeqsUpTo(SampleMsgs, MaxPeerMsgs)

\* The state after MessageProcessor(Socket): empty buffer, registry and
\* queues; the peer's bytes are in flight.
Init ==
    /\ m_buffer = <<>>
    /\ m_handlers = [t \in {} |-> <<>>]
    /\ m_ingress = <<>>
    /\ m_egress = <<>>
    /\ pc = "idle"
    /\ encoded_message = <<>>
    /\ sent = 0
    /\ peer_msgs \in PeerStreams
    /\ sock_in = EncodeAll(peer_msgs)
    /\ sock_out = <<>>
    /\ inbound_log = <<>>
    /\ sent_log = <<>>
    /\ calls = <<>>
    /\ last_recv = "none"
    /\ ret = "none"
    /\ write_failed = FALSE
    /\ TCPSocketInit

(***************************************************************************)
(* addHandler                                                              *)
(***************************************************************************)
HandlerCount ==
    LET RECURSIVE Sum(_)
        Sum(ts) == IF ts = {} THEN 0
                   ELSE LET t == CHOOSE x \in ts : TRUE
                        IN Len(m_handlers[t]) + Sum(ts \ {t})
    IN Sum(DOMAIN m_handlers)

\* m_handlers[type]: std::map::operator[] inserts an empty vector for a key
\* that is not present.
MapIndex(handlers, type) ==
    IF type \in DOMAIN handlers THEN handlers
    ELSE [t \in DOMAIN handlers \cup {type} |->
            IF t = type THEN <<>> ELSE handlers[t]]

\* PushHandler assigning the handler to the type instead of appending it.
PushHandler_Replaces(handlers, type, h) ==
    LET hs == MapIndex(handlers, type)
    IN [hs EXCEPT ![type] = <<h>>]

\* m_handlers[type].push_back(handler)
PushHandler(handlers, type, h) ==
    LET hs == MapIndex(handlers, type)
    IN [hs EXCEPT ![type] = Append(@, h)]

addHandler(type, fn) ==
    /\ pc = "idle"
    /\ HandlerCount < MaxHandlers
    /\ m_handlers' = PushHandler(m_handlers, type, [fn |-> fn, muted |-> FALSE])
    /\ UNCHANGED <<m_buffer, m_ingress, m_egress, pc, encoded_message, sent,
                   sock_in, sock_out, peer_msgs, inbound_log, sent_log, calls,
                   last_recv, ret, write_failed>>
    /\ UNCHANGED tcpvars

\* The muted overload registers a wrapper that calls handler(entity, args...).
addHandlerMuted(type, fn) ==
    /\ pc = "idle"
    /\ HandlerCount < MaxHandlers
    /\ m_handlers' = PushHandler(m_handlers, type, [fn |-> fn, muted |-> TRUE])
    /\ UNCHANGED <<m_buffer, m_ingress, m_egress, pc, encoded_message, sent,
                   sock_in, sock_out, peer_msgs, inbound_log, sent_log, calls,
                   last_recv, ret, write_failed>>
    /\ UNCHANGED tcpvars

(***************************************************************************)
(* parseBuffer                                                             *)
(***************************************************************************)
\* EmplaceMessages without the is_string check: every value is emplaced.
RECURSIVE EmplaceMessages_Unchecked(_, _, _)
EmplaceMessages_Unchecked(messages, ingress, id) ==
    IF messages = <<>> THEN ingress
    ELSE LET message == Head(messages)
             type == Member(message, K_type)
         IN EmplaceMessages_Unchecked(Tail(messages),
                Append(ingress, [type |-> string_value(type),
                                 entity |-> Member(message, K_entity),
                                 id |-> id]),
                id + 1)

\* The for loop of parseBuffer: every parsed value whose "type" member is a
\* string is emplaced as (type.string_value(), message["entity"]).
RECURSIVE EmplaceMessages(_, _, _)
EmplaceMessages(messages, ingress, id) ==
    IF messages = <<>> THEN ingress
    ELSE LET message == Head(messages)
             type == Member(message, K_type)
         IN IF is_string(type)
            THEN EmplaceMessages(Tail(messages),
                     Append(ingress, [type |-> string_value(type),
                                      entity |-> Member(message, K_entity),
                                      id |-> id]),
                     id + 1)
            ELSE EmplaceMessages(Tail(messages), ingress, id)

\* parseBuffer clearing the buffer after a failed parse as well.
parseBuffer_ClearsOnError(buffer, ingress, id) ==
    IF buffer = <<>> THEN [m_buffer |-> buffer, m_ingress |-> ingress]
    ELSE LET parsed == parse_multi(buffer)
         IN IF parsed.err
            THEN [m_buffer |-> <<>>, m_ingress |-> ingress]
            ELSE [m_buffer |-> <<>>,
                  m_ingress |-> EmplaceMessages(parsed.values, ingress, id)]

\* parseBuffer resynchronizing after a failed parse: the bytes up to and
\* including the first delimiter are dropped.
parseBuffer_Resyncs(buffer, ingress, id) ==
    IF buffer = <<>> THEN [m_buffer |-> buffer, m_ingress |-> ingress]
    ELSE LET parsed == parse_multi(buffer)
             ws == {i \in 1..Len(buffer) : IsWs(buffer[i])}
             first == CHOOSE i \in ws : \A j \in ws : i <= j
         IN IF parsed.err
            THEN [m_buffer |-> IF ws = {} THEN <<>>
                               ELSE SubSeq(buffer, first + 1, Len(buffer)),
                  m_ingress |-> ingress]
            ELSE [m_buffer |-> <<>>,
                  m_ingress |-> EmplaceMessages(parsed.values, ingress, id)]

\* parseBuffer on a buffer and an inbound queue; id is the ordinal of the next
\* message to arrive.  The result is the new buffer and the new queue.
parseBuffer(buffer, ingress, id) ==
    IF buffer = <<>> THEN [m_buffer |-> buffer, m_ingress |-> ingress]
    ELSE LET parsed == parse_multi(buffer)
         IN IF parsed.err
            THEN [m_buffer |-> buffer, m_ingress |-> ingress]
            ELSE [m_buffer |-> <<>>,
                  m_ingress |-> EmplaceMessages(parsed.values, ingress, id)]

(***************************************************************************)
(* proccess                                                                *)
(***************************************************************************)
Min(a, b) == IF a < b THEN a ELSE b

\* RecvResults with a request for all pending bytes, whatever space is free.
RecvResults_IgnoresFree(free_buffer) ==
    {[kind |-> "data", n |-> n] : n \in 1..Len(sock_in)}
      \cup (IF sock_in = <<>>
            THEN {[kind |-> "eof", n |-> 0], [kind |-> "wouldblock", n |-> 0 - 1]}
            ELSE {})
      \cup {[kind |-> "error", n |-> 0 - 1]}

\* What recv(m_socket, ..., free_buffer) can return: n > 0 bytes that are
\* available, 0 at end of stream, -1 with EAGAIN/EWOULDBLOCK when nothing is
\* available, -1 with another errno at any time.
RecvResults(free_buffer) ==
    {[kind |-> "data", n |-> n] : n \in 1..Min(free_buffer, Len(sock_in))}
      \cup (IF sock_in = <<>>
            THEN {[kind |-> "eof", n |-> 0], [kind |-> "wouldblock", n |-> 0 - 1]}
            ELSE {})
      \cup {[kind |-> "error", n |-> 0 - 1]}

\* (type, entity) of the queue entries from position from on.
LogOf(ingress, from) ==
    [i \in 1..(Len(ingress) - from + 1) |->
        Msg(ingress[from + i - 1].type, ingress[from + i - 1].entity)]

\* proccess calling parseBuffer whatever recv returned.
proccess_ParsesAlways ==
    /\ pc = "idle"
    /\ LET free_buffer == Capacity - Len(m_buffer)
       IN IF free_buffer = 0
          THEN /\ last_recv' = "full"
               /\ UNCHANGED <<m_buffer, m_ingress, inbound_log, sock_in>>
          ELSE \E r \in RecvResults(free_buffer) :
                 /\ last_recv' = r.kind
                 /\ sock_in' = IF r.kind = "data"
                               THEN SubSeq(sock_in, r.n + 1, Len(sock_in))
                               ELSE sock_in
                 /\ LET p == parseBuffer(m_buffer, m_ingress,
                                         Len(inbound_log) + 1)
                    IN /\ m_buffer' = p.m_buffer
                       /\ m_ingress' = p.m_ingress
                       /\ inbound_log' = inbound_log
                            \o LogOf(p.m_ingress, Len(m_ingress) + 1)
    /\ ret' = "void"
    /\ UNCHANGED <<m_handlers, m_egress, pc, encoded_message, sent, sock_out,
                   peer_msgs, sent_log, calls, write_failed>>
    /\ UNCHANGED tcpvars

\* recv stores the bytes it returns behind the string's size() bytes, in the
\* storage reserved by the constructor; nothing changes the string's size(),
\* so the std::string m_buffer is the same string after the call.
proccess ==
    /\ pc = "idle"
    /\ LET free_buffer == Capacity - Len(m_buffer)
       IN IF free_buffer = 0
          THEN /\ last_recv' = "full"
               /\ UNCHANGED <<m_buffer, m_ingress, inbound_log, sock_in>>
          ELSE \E r \in RecvResults(free_buffer) :
                 /\ last_recv' = r.kind
                 /\ sock_in' = IF r.kind = "data"
                               THEN SubSeq(sock_in, r.n + 1, Len(sock_in))
                               ELSE sock_in
                 /\ IF r.n = 0 \/ r.n = 0 - 1
                    THEN UNCHANGED <<m_buffer, m_ingress, inbound_log>>
                    ELSE LET p == parseBuffer(m_buffer, m_ingress,
                                              Len(inbound_log) + 1)
                         IN /\ m_buffer' = p.m_buffer
                            /\ m_ingress' = p.m_ingress
                            /\ inbound_log' = inbound_log
                                 \o LogOf(p.m_ingress, Len(m_ingress) + 1)
    /\ ret' = "void"
    /\ UNCHANGED <<m_handlers, m_egress, pc, encoded_message, sent, sock_out,
                   peer_msgs, sent_log, calls, write_failed>>
    /\ UNCHANGED tcpvars

(***************************************************************************)
(* dispatch                                                                *)
(***************************************************************************)
\* Emplace putting the message at the front of the queue.
Emplace_Front(egress, type, entity) == <<Msg(type, entity)>> \o egress

\* m_egress.emplace(type, entity), the body of send.
Emplace(egress, type, entity) == Append(egress, Msg(type, entity))

\* The send calls of one handler invocation, in order.
RECURSIVE EmplaceAll(_, _)
EmplaceAll(egress, out) ==
    IF out = <<>> THEN egress
    ELSE EmplaceAll(Emplace(egress, Head(out).type, Head(out).entity), Tail(out))

\* InvokeHandlers iterating the vector from its last element.
RECURSIVE InvokeHandlers_Reversed(_, _, _, _)
InvokeHandlers_Reversed(hs, front, args, st) ==
    IF hs = <<>> THEN st
    ELSE LET h == hs[Len(hs)]
             out == HandlerSends(h, front.entity)
         IN InvokeHandlers_Reversed(SubSeq(hs, 1, Len(hs) - 1), front, args,
                [st EXCEPT !.m_egress = EmplaceAll(@, out),
                           !.sent_log = @ \o out,
                           !.calls = Append(@, [fn |-> h.fn,
                                                entity |-> front.entity,
                                                args |-> args,
                                                msg |-> front.id])])

\* The range-for over the handlers of one message: each handler is called
\* with (this, entity of the front message, args...); what it sends is
\* emplaced on m_egress before the next handler runs.
RECURSIVE InvokeHandlers(_, _, _, _)
InvokeHandlers(hs, front, args, st) ==
    IF hs = <<>> THEN st
    ELSE LET h == Head(hs)
             out == HandlerSends(h, front.entity)
         IN InvokeHandlers(Tail(hs), front, args,
                [st EXCEPT !.m_egress = EmplaceAll(@, out),
                           !.sent_log = @ \o out,
                           !.calls = Append(@, [fn |-> h.fn,
                                                entity |-> front.entity,
                                                args |-> args,
                                                msg |-> front.id])])

\* DispatchLoop taking the most recent message instead of the front.
RECURSIVE DispatchLoop_Lifo(_, _)
DispatchLoop_Lifo(args, st) ==
    IF st.m_ingress = <<>> THEN st
    ELSE LET back == st.m_ingress[Len(st.m_ingress)]
             handlers == MapIndex(st.m_handlers, back.type)
             after == InvokeHandlers(handlers[back.type], back, args,
                                     [st EXCEPT !.m_handlers = handlers])
         IN DispatchLoop_Lifo(args,
                [after EXCEPT !.m_ingress = SubSeq(@, 1, Len(@) - 1)])

\* DispatchLoop with an if in place of the while: one message per call.
DispatchLoop_Once(args, st) ==
    IF st.m_ingress = <<>> THEN st
    ELSE LET front == Head(st.m_ingress)
             handlers == MapIndex(st.m_handlers, front.type)
             after == InvokeHandlers(handlers[front.type], front, args,
                                     [st EXCEPT !.m_handlers = handlers])
         IN [after EXCEPT !.m_ingress = Tail(@)]

\* DispatchLoop leaving the loop at a message that has no handler.
RECURSIVE DispatchLoop_StopsAtUnknown(_, _)
DispatchLoop_StopsAtUnknown(args, st) ==
    IF st.m_ingress = <<>> THEN st
    ELSE LET front == Head(st.m_ingress)
             handlers == MapIndex(st.m_handlers, front.type)
             after == InvokeHandlers(handlers[front.type], front, args,
                                     [st EXCEPT !.m_handlers = handlers])
         IN IF handlers[front.type] = <<>> THEN after
            ELSE DispatchLoop_StopsAtUnknown(args,
                     [after EXCEPT !.m_ingress = Tail(@)])

\* while (!m_ingress.empty()) { for (handler : m_handlers[type of front])
\* handler(...); m_ingress.pop(); }
RECURSIVE DispatchLoop(_, _)
DispatchLoop(args, st) ==
    IF st.m_ingress = <<>> THEN st
    ELSE LET front == Head(st.m_ingress)
             handlers == MapIndex(st.m_handlers, front.type)
             after == InvokeHandlers(handlers[front.type], front, args,
                                     [st EXCEPT !.m_handlers = handlers])
         IN DispatchLoop(args, [after EXCEPT !.m_ingress = Tail(@)])

dispatch(args) ==
    /\ pc = "idle"
    /\ LET st == DispatchLoop(args, [m_handlers |-> m_handlers,
                                     m_ingress |-> m_ingress,
                                     m_egress |-> m_egress,
                                     sent_log |-> sent_log,
                                     calls |-> calls])
       IN /\ m_handlers' = st.m_handlers
          /\ m_ingress' = st.m_ingress
          /\ m_egress' = st.m_egress
          /\ sent_log' = st.sent_log
          /\ calls' = st.calls
    /\ UNCHANGED <<m_buffer, pc, encoded_message, sent, sock_in, sock_out,
                   peer_msgs, inbound_log, last_recv, ret, write_failed>>
    /\ UNCHANGED tcpvars

(***************************************************************************)
(* send and flushSendQueue                                                 *)
(***************************************************************************)
\* send writing the message to the socket at once instead of queueing it.
send_WritesThrough(type, entity) ==
    /\ pc = "idle"
    /\ Len(sent_log) < MaxSends
    /\ sock_out' = sock_out \o Encode(Msg(type, entity))
    /\ sent_log' = Append(sent_log, Msg(type, entity))
    /\ UNCHANGED <<m_buffer, m_handlers, m_ingress, m_egress, pc,
                   encoded_message, sent, sock_in, peer_msgs, inbound_log,
                   calls, last_recv, ret, write_failed>>
    /\ UNCHANGED tcpvars

send(type, entity) ==
    /\ pc = "idle"
    /\ Len(sent_log) < MaxSends
    /\ m_egress' = Emplace(m_egress, type, entity)
    /\ sent_log' = Append(sent_log, Msg(type, entity))
    /\ UNCHANGED <<m_buffer, m_handlers, m_ingress, pc, encoded_message, sent,
                   sock_in, sock_out, peer_msgs, inbound_log, calls,
                   last_recv, ret, write_failed>>
    /\ UNCHANGED tcpvars

\* The head of the outer while loop: with an empty queue the call returns,
\* otherwise the front message is popped and encoded and sent is set to 0.
FlushNext(egress) ==
    IF egress = <<>>
    THEN [pc |-> "idle", m_egress |-> egress, encoded_message |-> <<>>, sent |-> 0]
    ELSE [pc |-> "flush", m_egress |-> Tail(egress),
          encoded_message |-> Encode(Head(egress)), sent |-> 0]

\* The call of flushSendQueue up to its first ::send.
flushSendQueue ==
    /\ pc = "idle"
    /\ LET f == FlushNext(m_egress)
       IN /\ pc' = f.pc
          /\ m_egress' = f.m_egress
          /\ encoded_message' = f.encoded_message
          /\ sent' = f.sent
    /\ write_failed' = FALSE
    /\ UNCHANGED <<m_buffer, m_handlers, m_ingress, sock_in, sock_out,
                   peer_msgs, inbound_log, sent_log, calls, last_recv, ret>>
    /\ UNCHANGED tcpvars

\* What ::send(m_socket, data + sent, size - sent, 0) can return: the number
\* of bytes the transport accepted, or -1.
SendResults(len) == (1..len) \cup {0 - 1}

\* Advance taking every accepted write for a complete one.
Advance_IgnoresPartial(sent_so_far, data_or_error) ==
    IF data_or_error = 0 - 1 THEN sent_so_far ELSE Len(encoded_message)

\* The effect of one ::send result on the local sent.
Advance(sent_so_far, data_or_error) ==
    IF data_or_error = 0 - 1 THEN sent_so_far ELSE sent_so_far + data_or_error

\* One ::send of the inner while loop, returning one of results, and the code
\* up to the next ::send or to the return of flushSendQueue.
FlushWrite(results) ==
    /\ pc = "flush"
    /\ sent < Len(encoded_message)
    /\ \E data_or_error \in results :
         LET now == Advance(sent, data_or_error)
         IN /\ sock_out' = IF data_or_error = 0 - 1 THEN sock_out
                           ELSE sock_out \o SubSeq(encoded_message, sent + 1,
                                                   sent + data_or_error)
            /\ IF now < Len(encoded_message)
               THEN /\ sent' = now
                    /\ write_failed' = (write_failed \/ data_or_error = 0 - 1)
                    /\ UNCHANGED <<pc, m_egress, encoded_message>>
               ELSE LET f == FlushNext(m_egress)
                    IN /\ pc' = f.pc
                       /\ write_failed' = (write_failed /\ f.pc = "flush")
                       /\ m_egress' = f.m_egress
                       /\ encoded_message' = f.encoded_message
                       /\ sent' = f.sent
    /\ UNCHANGED <<m_buffer, m_handlers, m_ingress, sock_in, peer_msgs,
                   inbound_log, sent_log, calls, last_recv, ret>>
    /\ UNCHANGED tcpvars

\* A write on a transport that may fail.
flushWrite == FlushWrite(SendResults(Len(encoded_message) - sent))

\* A write on a transport that accepts at least one byte and never fails.
flushAccept == FlushWrite(1..(Len(encoded_message) - sent))

(***************************************************************************)
(* sys::TCPSocket                                                          *)
(***************************************************************************)
\* Successful SDLNet_TCP_Open calls.
MaxOpens == 2

\* SDLNet_TCP_Send calls.
MaxTransmits == 2

\* SDLNet_ResolveHost returns 0, or -1 when the host cannot be resolved.
ResolveResults == {0, 0 - 1}

\* SDLNet_TCP_Open returns a new connected socket, or NULL.
OpenResults == {"socket", "NULL"}

\* SDLNet_TCP_Send on a connected socket returns len, or less on an error.
\* On NULL it reads through the pointer: the process is killed, or the call
\* comes back with an error.
TransmitResults(socket) ==
    IF socket = 0 THEN {"crash", "less"} ELSE {"len", "less"}

connectToHost ==
    /\ tcp_ret /= "crash"
    /\ \E resolved \in ResolveResults, opened \in OpenResults :
         IF resolved < 0
         THEN /\ m_server' = "none"
              /\ tcp_ret' = "false"
              /\ UNCHANGED <<m_open, m_socket, opens, closes>>
         ELSE /\ m_server' = "resolved"
              /\ IF opened = "NULL"
                 THEN /\ m_socket' = 0
                      /\ tcp_ret' = "false"
                      /\ UNCHANGED <<m_open, opens, closes>>
                 ELSE /\ opens < MaxOpens
                      /\ opens' = opens + 1
                      /\ closes' = Append(closes, 0)
                      /\ m_socket' = opens + 1
                      /\ m_open' = TRUE
                      /\ tcp_ret' = "true"
    /\ UNCHANGED transmitted
    /\ UNCHANGED procvars

\* bool TCPSocket::send(const void *buf, int len)
TCPSocket_send ==
    /\ tcp_ret /= "crash"
    /\ IF ~m_open
       THEN /\ tcp_ret' = "false"
            /\ UNCHANGED transmitted
       ELSE /\ Len(transmitted) < MaxTransmits
            /\ \E r \in TransmitResults(m_socket) :
                 /\ transmitted' = IF m_socket = 0 THEN transmitted
                                   ELSE Append(transmitted, m_socket)
                 /\ tcp_ret' = CASE r = "len" -> "true"
                                 [] r = "less" -> "false"
                                 [] r = "crash" -> "crash"
    /\ UNCHANGED <<m_open, m_socket, m_server, opens, closes>>
    /\ UNCHANGED procvars

\* void TCPSocket::close(); SDLNet_TCP_Close does nothing on NULL.
TCPSocket_close ==
    /\ tcp_ret /= "crash"
    /\ IF m_open
       THEN /\ closes' = IF m_socket = 0 THEN closes
                         ELSE [closes EXCEPT ![m_socket] = @ + 1]
            /\ m_open' = FALSE
       ELSE UNCHANGED <<m_open, closes>>
    /\ tcp_ret' = "void"
    /\ UNCHANGED <<m_socket, m_server, opens, transmitted>>
    /\ UNCHANGED procvars

(***************************************************************************)
(* Object states for the method contracts                                  *)
(***************************************************************************)
\* Messages queued in m_ingress in a sampled object state.
MaxQueued == 2

V1 == dump(Envelope(T_a, JNum(1)))

V2 == dump(Envelope(T_b, JBool(TRUE)))

Sp == <<" ">>

\* {"type": "a"}: no entity member.
NoEntity == dump(JObj([x \in {K_type} |-> JStr(T_a)]))

\* {"entity": 1}: no type member.
NoType == dump(JObj([x \in {K_entity} |-> JNum(1)]))

\* {"entity": null, "type": 2}: the type is not a string.
NonStringType == dump(JObj([x \in {K_type, K_entity} |->
                              IF x = K_type THEN JNum(2) ELSE JNull]))

\* A value that is not an object.
Num12 == <<"1", "2">>

\* A message whose last bytes have not arrived.
Trunc == SubSeq(V2, 1, Len(V2) - 3)

\* Bytes that start no JSON value.
Bad == <<"x">>

\* Buffer contents: what precedes, what follows.
BufferHeads == {<<>>, Sp, V1 \o Sp, V1, NoType \o Sp, Bad \o Sp}

BufferTails == {<<>>, V2 \o Sp, V2, NoEntity \o Sp, NonStringType \o Sp,
                Num12, Trunc, Bad}

BufferSamples == {h \o t : h \in BufferHeads, t \in BufferTails}

\* Queue contents: the entries carry the ordinals 1, 2, ...
IngressSamples ==
    {[i \in 1..Len(q) |-> [type |-> q[i].type, entity |-> q[i].entity, id |-> i]] :
        q \in SeqsUpTo(SampleMsgs, MaxQueued)}

\* Queue contents of at most one message.
ShortQueues == {q \in IngressSamples : Len(q) <= 1}

\* A processor whose buffer is one of buffers and whose inbound queue is one
\* of queues, with the bytes inflight received by no recv yet.  proccess
\* never enlarges m_buffer and so nothing is ever parsed from Init: the
\* contracts of parseBuffer and dispatch are checked from these states.
InitWith(buffers, queues, inflight) ==
    /\ m_buffer \in buffers
    /\ m_handlers = [t \in {} |-> <<>>]
    /\ m_ingress \in queues
    /\ m_egress = <<>>
    /\ pc = "idle"
    /\ encoded_message = <<>>
    /\ sent = 0
    /\ peer_msgs = <<>>
    /\ sock_in = inflight
    /\ sock_out = <<>>
    /\ inbound_log = LogOf(m_ingress, 1)
    /\ sent_log = <<>>
    /\ calls = <<>>
    /\ last_recv = "none"
    /\ ret = "none"
    /\ write_failed = FALSE
    /\ TCPSocketInit

\* Sampled buffer contents, a short queue, one byte in flight.
InitObj == InitWith(BufferSamples, ShortQueues, Sp)

\* Sampled queue contents; the buffer is empty or holds two messages.
InitDispatch == InitWith({<<>>, V1 \o Sp \o V2 \o Sp}, IngressSamples, Sp)

\* A short queue; nothing arrives.
InitQueued == InitWith({<<>>}, ShortQueues, <<>>)

\* Buffer contents with a byte that starts no JSON value, before or behind
\* other content.
StalledBuffers ==
    {Bad \o Sp \o t : t \in BufferTails} \cup {h \o Bad : h \in BufferHeads}

\* A buffer that is empty, holds an incomplete message, or holds malformed
\* content; a complete message is in flight.
InitStall == InitWith(StalledBuffers \cup {<<>>, Trunc}, ShortQueues, V1 \o Sp)

\* The server's processor of the port announcement scenario: handleNetUDP is
\* registered for "net.udp", and the bytes the client's flushSendQueue wrote
\* for send("net.udp", 4545) are in flight.
InitScenario ==
    /\ m_buffer = <<>>
    /\ m_handlers = [t \in {T_udp} |-> <<[fn |-> "handleNetUDP", muted |-> FALSE]>>]
    /\ m_ingress = <<>>
    /\ m_egress = <<>>
    /\ pc = "idle"
    /\ encoded_message = <<>>
    /\ sent = 0
    /\ peer_msgs = <<Msg(T_udp, JNum(4545))>>
    /\ sock_in = EncodeAll(peer_msgs)
    /\ sock_out = <<>>
    /\ inbound_log = <<>>
    /\ sent_log = <<>>
    /\ calls = <<>>
    /\ last_recv = "none"
    /\ ret = "none"
    /\ write_failed = FALSE
    /\ TCPSocketInit

\* size() == capacity(): the reserved storage is used up by bytes that start
\* no JSON value.
FullBuffer == [i \in 1..Capacity |-> "x"]

\* One byte less than the reserved storage.
AlmostFull == [i \in 1..(Capacity - 1) |-> "x"]

\* A buffer at or next to its capacity; two more bytes are in flight.
InitFull == InitWith({FullBuffer, AlmostFull}, ShortQueues, Bad \o Bad)

(***************************************************************************)
(* Specifications                                                          *)
(***************************************************************************)
\* The receive path: registration, reading and parsing, dispatching.
NextRecv ==
    \/ \E type \in MessageTypes, fn \in FullHandlers : addHandler(type, fn)
    \/ \E type \in MessageTypes, fn \in MutedHandlers : addHandlerMuted(type, fn)
    \/ proccess
    \/ \E args \in ArgChoices : dispatch(args)

\* The send path: registration of handlers that send, dispatching, sending
\* and flushing.  Muted handlers make no send and are left out.
NextSend ==
    \/ \E type \in MessageTypes, fn \in FullHandlers : addHandler(type, fn)
    \/ \E args \in ArgChoices : dispatch(args)
    \/ \E m \in SampleMsgs : send(m.type, m.entity)
    \/ flushSendQueue
    \/ flushWrite

\* The receive path of a processor from its construction on.
SpecRecv == Init /\ [][NextRecv]_vars

\* The receive path from the sampled buffer contents.
SpecObj == InitObj /\ [][NextRecv]_vars

\* The receive path from the sampled queue contents.
SpecDispatch == InitDispatch /\ [][NextRecv]_vars

\* The send path from a short queue.
SpecSend == InitQueued /\ [][NextSend]_vars

\* Registration, sending by the owner and dispatching.
NextReply ==
    \/ \E type \in MessageTypes, fn \in FullHandlers : addHandler(type, fn)
    \/ \E type \in MessageTypes, fn \in MutedHandlers : addHandlerMuted(type, fn)
    \/ \E m \in SampleMsgs : send(m.type, m.entity)
    \/ \E args \in ArgChoices : dispatch(args)

\* Handlers that reply and handlers that cannot, on the sampled queue
\* contents, with messages of the owner in the outbound queue.
SpecReply == InitWith({<<>>}, IngressSamples, <<>>) /\ [][NextReply]_vars

\* The calls on one TCPSocket.
NextTCPSocket ==
    \/ connectToHost
    \/ TCPSocket_send
    \/ TCPSocket_close

\* One TCPSocket from its construction on; no processor is involved.
SpecTCPSocket == InitWith({<<>>}, {<<>>}, <<>>) /\ [][NextTCPSocket]_vars

\* Reading, parsing and dispatching without registration.
NextIngest ==
    \/ proccess
    \/ \E args \in ArgChoices : dispatch(args)

\* A complete message arrives at a buffer that may hold malformed content.
SpecStall == InitStall /\ [][NextIngest]_vars

\* The receive path of the server in the port announcement scenario.
SpecScenario == InitScenario /\ [][NextRecv]_vars

\* The receive path from a buffer at or next to its capacity.  The owner
\* calls proccess again and again.
SpecFull == InitFull /\ [][NextRecv]_vars /\ WF_vars(proccess)

\* Sending and flushing on a transport that never reports an error.
NextFlush ==
    \/ \E m \in SampleMsgs : send(m.type, m.entity)
    \/ flushSendQueue
    \/ flushAccept

\* flushSendQueue calls ::send again as long as bytes remain, so a write
\* that can be made is made.
SpecFlush == Init /\ [][NextFlush]_vars /\ WF_vars(flushAccept)

(***************************************************************************)
(* Properties                                                              *)
(***************************************************************************)
IsPrefix(s, t) == Len(s) <= Len(t) /\ SubSeq(t, 1, Len(s)) = s

IsSuffix(s, t) == Len(s) <= Len(t) /\ SubSeq(t, Len(t) - Len(s) + 1, Len(t)) = s

\* The bytes of the peer's stream that recv has returned so far.
Fed == SubSeq(EncodeAll(peer_msgs), 1, Len(EncodeAll(peer_msgs)) - Len(sock_in))

\* A proccess call whose recv returned data, so that parseBuffer ran.
ParseAttempt == Len(sock_in') < Len(sock_in)

\* C1: once every byte of the serialized messages M1..Mn has been received,
\* in whatever chunks, the messages appended to the inbound queue are exactly
\* M1..Mn in order.
C1_FramingRoundTrip == sock_in = <<>> => inbound_log = peer_msgs

\* C2: for one serialized message, when all bytes but the last have been
\* received no message has been extracted and the buffer holds exactly the
\* bytes received; when the last byte has been received too the message has
\* been produced exactly once.
C2_PartialWriteSafety ==
    Len(peer_msgs) = 1 =>
        /\ Len(sock_in) = 1 => (inbound_log = <<>> /\ m_buffer = Fed)
        /\ sock_in = <<>> => inbound_log = peer_msgs

\* C3: a parse attempt on a buffer that does not parse as a sequence of
\* complete JSON values appends nothing to the inbound queue and leaves the
\* buffer byte for byte as it was.
C3_FailedParseChangesNothing ==
    [][(ParseAttempt /\ m_buffer /= <<>> /\ parse_multi(m_buffer).err)
          => (m_buffer' = m_buffer /\ m_ingress' = m_ingress
              /\ inbound_log' = inbound_log)]_vars

\* A parse attempt has failed on malformed content that is followed by a
\* complete message, and the content is still buffered.
C3_Witness ==
    /\ last_recv = "data"
    /\ m_buffer = Bad \o Sp \o V2 \o Sp
    /\ parse_multi(m_buffer).err

\* A parsed value that is an object with a string-valued type member.
TypeValid(v) == v.k = "obj" /\ K_type \in DOMAIN v.v /\ v.v[K_type].k = "str"

\* The (type, payload) of a type-valid value; the payload is null when the
\* value has no entity member.
AsMessage(v) ==
    Msg(v.v[K_type].v, IF K_entity \in DOMAIN v.v THEN v.v[K_entity] ELSE JNull)

ValidMessages(values) ==
    LET valid == SelectSeq(values, TypeValid)
    IN [i \in 1..Len(valid) |-> AsMessage(valid[i])]

\* C4: a parse attempt on a buffer that parses as values v1..vk empties the
\* buffer and extends the inbound queue by exactly the type-valid values among
\* them, in stream order, as (type, entity) with a null payload for a missing
\* entity; the other values are dropped.
C4_SuccessfulParseEnqueuesValid ==
    [][(ParseAttempt /\ m_buffer /= <<>> /\ ~parse_multi(m_buffer).err)
          => (/\ m_buffer' = <<>>
              /\ LogOf(m_ingress', 1)
                   = LogOf(m_ingress, 1) \o ValidMessages(parse_multi(m_buffer).values)
              /\ SubSeq(m_ingress', 1, Len(m_ingress)) = m_ingress)]_vars

\* A buffer holding a value without type and a message without entity has
\* been parsed: one message with a null payload was queued behind the
\* messages already there.
C4_Witness ==
    /\ last_recv = "data"
    /\ m_buffer = <<>>
    /\ Len(m_ingress) = 2
    /\ m_ingress[1].entity = JNum(1)
    /\ m_ingress[2] = [type |-> T_a, entity |-> JNull, id |-> 2]
    /\ Len(inbound_log) = 2

\* A dispatch call that found messages queued.
DispatchStep == m_ingress /= <<>> /\ m_ingress' = <<>>

NewCalls == SubSeq(calls', Len(calls) + 1, Len(calls'))

\* The handlers registered for a type when dispatch is called.
Registered(type) == IF type \in DOMAIN m_handlers THEN m_handlers[type] ELSE <<>>

\* The invocations among cs that were made for the message with ordinal id.
CallsFor(cs, id) ==
    LET RECURSIVE Pick(_)
        Pick(c) == IF c = <<>> THEN <<>>
                   ELSE IF Head(c).msg = id THEN <<Head(c)>> \o Pick(Tail(c))
                   ELSE Pick(Tail(c))
    IN Pick(cs)

\* C5: dispatching a queued message of type T invokes each of the N handlers
\* registered for T exactly once, in registration order, with the message's
\* payload and the context arguments of the dispatch call, and the invocations
\* for one message are not interleaved with those for another.
C5_HandlerFanOut ==
    [][DispatchStep =>
         \E args \in ArgChoices :
           /\ \A i \in 1..Len(m_ingress) :
                LET m == m_ingress[i]
                    hs == Registered(m.type)
                IN CallsFor(NewCalls, m.id)
                     = [j \in 1..Len(hs) |-> [fn |-> hs[j].fn, entity |-> m.entity,
                                              args |-> args, msg |-> m.id]]
           /\ \A p, q, r \in 1..Len(NewCalls) :
                (p < q /\ q < r /\ NewCalls[p].msg = NewCalls[r].msg)
                   => NewCalls[q].msg = NewCalls[p].msg]_vars

\* A full and a muted handler registered for one type have both been invoked
\* for one message, the full one first.
C5_Witness ==
    \E p \in 1..(Len(calls) - 1) :
        /\ calls[p].msg = calls[p + 1].msg
        /\ calls[p].fn = "echo"
        /\ calls[p + 1].fn = "log"

\* C6: every handler invocation for a message that was appended to the
\* inbound queue earlier precedes every invocation for a message appended
\* later, whatever the types and however many reads and dispatch calls.
C6_DispatchInArrivalOrder ==
    \A p, q \in 1..Len(calls) : calls[p].msg < calls[q].msg => p < q

\* Messages of type "a" and "b" were parsed from one read, and a handler of
\* "a" and then a handler of "b" were invoked for them.
C6_Witness ==
    /\ last_recv = "data"
    /\ Len(inbound_log) >= 2
    /\ \E p \in 1..(Len(calls) - 1) :
         /\ calls[p].msg + 1 = calls[p + 1].msg
         /\ calls[p + 1].msg = Len(inbound_log)
         /\ inbound_log[calls[p].msg].type = T_a
         /\ inbound_log[calls[p + 1].msg].type = T_b

\* The bytes of one envelope on the wire, written out for the messages that
\* are sent: {"entity": e, "type": "t"} and one space.
EntityText(e) ==
    CASE e = JNum(1) -> <<"1">>
      [] e = JBool(TRUE) -> <<"t", "r", "u", "e">>
      [] e = JNull -> <<"n", "u", "l", "l">>

WireBytes(m) ==
    <<"{", Q, "e", "n", "t", "i", "t", "y", Q, ":", " ">> \o EntityText(m.entity)
      \o <<",", " ", Q, "t", "y", "p", "e", Q, ":", " ", Q>> \o m.type
      \o <<Q, "}", " ">>

RECURSIVE WireOf(_)
WireOf(ms) == IF ms = <<>> THEN <<>> ELSE WireBytes(Head(ms)) \o WireOf(Tail(ms))

\* C7: the envelopes written to the transport are the messages passed to
\* send, by the owner or by handlers, in the order of the send calls: the
\* bytes written are a prefix of the envelopes of all sends in call order,
\* and the queue holds the most recent sends in call order.
C7_SendOrderIsWireOrder ==
    /\ IsPrefix(sock_out, WireOf(sent_log))
    /\ IsSuffix(m_egress, sent_log)

\* Sends by the owner and by a handler, of both types, have all been written.
C7_Witness ==
    /\ calls /= <<>>
    /\ Len(sent_log) >= 3
    /\ \E i \in 1..(Len(sent_log) - 1) : sent_log[i].type /= sent_log[i + 1].type
    /\ pc = "idle"
    /\ m_egress = <<>>
    /\ sock_out = WireOf(sent_log)

\* C8: on a transport that accepts between 1 and all of the requested bytes
\* and never fails, every write of flushSendQueue appends the next unsent
\* bytes to what the transport has accepted, the call returns, and when it
\* returns the queue is empty and every envelope and its one delimiter byte
\* has been written completely, once, in queue order.
C8_FlushWritesCompletely ==
    /\ [][pc = "flush"
            => (/\ Len(sock_out') > Len(sock_out)
                /\ sock_out' \o SubSeq(encoded_message', sent' + 1, Len(encoded_message'))
                     \o WireOf(m_egress') = WireOf(sent_log)
                /\ pc' = "idle" => (m_egress' = <<>> /\ sock_out' = WireOf(sent_log)))]_vars
    /\ (pc = "flush" ~> pc = "idle")

\* In a flush of two queued messages without a failed write, the first
\* message has been written and the second one in part.
C8_Witness ==
    /\ pc = "flush"
    /\ ~write_failed
    /\ Len(sent_log) = 2
    /\ m_egress = <<>>
    /\ sent > 0
    /\ sent < Len(encoded_message)
    /\ sock_out = WireBytes(sent_log[1]) \o SubSeq(WireBytes(sent_log[2]), 1, sent)

\* C9: after a write of flushSendQueue has failed the call has ended: the
\* write is not issued again.
C9_WriteErrorEndsFlush == ~(pc = "flush" /\ write_failed)

\* C10: when the read of proccess fails with a transport error, the caller is
\* returned an error outcome, which is not what it is returned when the read
\* would block.
C10_ReadErrorReported == last_recv = "error" => ret = "error"

DispatchCall ==
    m_ingress /= <<>> /\ (calls' /= calls \/ Len(m_ingress') < Len(m_ingress))

\* C12: a dispatch call that meets a queued message whose type has no
\* registered handler invokes no handler for it, reports nothing, removes it
\* from the inbound queue and goes on: every message queued behind it is
\* handed to all handlers of its type, and the queue is empty afterwards.
C12_UnknownTypeSilence ==
    [][DispatchCall =>
         /\ m_ingress' = <<>>
         /\ ret' = ret
         /\ pc' = "idle"
         /\ \A i \in 1..Len(m_ingress) :
              Registered(m_ingress[i].type) = <<>> =>
                /\ CallsFor(NewCalls, m_ingress[i].id) = <<>>
                /\ \A j \in (i + 1)..Len(m_ingress) :
                     Len(CallsFor(NewCalls, m_ingress[j].id))
                       = Len(Registered(m_ingress[j].type))]_vars

\* Two messages were queued, the first of a type without handler; one
\* dispatch call removed both and invoked a handler for the second only.
C12_Witness ==
    /\ last_recv = "none"
    /\ Len(inbound_log) = 2
    /\ m_ingress = <<>>
    /\ calls /= <<>>
    /\ calls[1].msg = 2

\* C13: in the port announcement scenario, once the server has read every
\* byte of the client's message, the message is queued for dispatch or the
\* "net.udp" handler has been invoked with the payload 4545 and has sent
\* ("net.udp.ack", true), the one message the client then finds in its
\* inbound queue.
C13_RequestAck ==
    (peer_msgs = <<Msg(T_udp, JNum(4545))>> /\ sock_in = <<>>) =>
        \/ LogOf(m_ingress, 1) = peer_msgs
        \/ /\ \E c \in 1..Len(calls) :
                calls[c].fn = "handleNetUDP" /\ calls[c].entity = JNum(4545)
           /\ sent_log = <<Msg(T_udp_ack, JBool(TRUE))>>

\* C14: when the most recent read of a processor reported a transport error
\* or the close of the stream by the peer, the connection is no longer open:
\* the next proccess call reads no byte and appends no message to the inbound
\* queue.
C14_NoIngestAfterClose ==
    [][(last_recv = "error" \/ last_recv = "eof")
         => (sock_in' = sock_in /\ inbound_log' = inbound_log)]_vars

\* The messages passed to send in a step.
NewSends == SubSeq(sent_log', Len(sent_log) + 1, Len(sent_log'))

\* C15: every send call, by the owner or by a handler, writes nothing to the
\* transport and puts its (type, payload) at the back of the outbound queue,
\* behind the entries already there; a call by the owner puts exactly one
\* entry there and changes neither the buffer, the inbound queue nor the
\* handler registry.
C15_SendOnlyEnqueues ==
    [][Len(sent_log') > Len(sent_log) =>
         /\ m_egress' = m_egress \o NewSends
         /\ sock_out' = sock_out
         /\ m_buffer' = m_buffer
         /\ calls' = calls =>
              /\ Len(NewSends) = 1
              /\ m_ingress' = m_ingress
              /\ m_handlers' = m_handlers
              /\ pc' = pc /\ ret' = ret]_vars

\* The owner has sent two messages while a message is queued inbound: both
\* are in the outbound queue in call order and nothing has been written.
C15_Witness ==
    /\ calls = <<>>
    /\ m_ingress /= <<>>
    /\ Len(m_egress) = 2
    /\ m_egress = sent_log
    /\ sock_out = <<>>

\* C16: a step that changes the handler list of a type T is an addHandler
\* call: T's list is its previous list followed by one handler, the lists
\* of all other types are as they were, no type leaves the registry, and
\* both queues and the buffer are unchanged.
C16_AddHandlerOnlyAppends ==
    [][\A T \in DOMAIN m_handlers' :
         m_handlers'[T] /= Registered(T) =>
           /\ Len(m_handlers'[T]) = Len(Registered(T)) + 1
           /\ SubSeq(m_handlers'[T], 1, Len(Registered(T))) = Registered(T)
           /\ DOMAIN m_handlers' = DOMAIN m_handlers \cup {T}
           /\ \A U \in DOMAIN m_handlers \ {T} : m_handlers'[U] = m_handlers[U]
           /\ m_ingress' = m_ingress
           /\ m_egress' = m_egress
           /\ m_buffer' = m_buffer]_vars

\* A full and a muted handler are registered for one type, in either order,
\* while a message is queued.
C16_Witness ==
    /\ m_ingress /= <<>>
    /\ \E T \in DOMAIN m_handlers :
         /\ Len(m_handlers[T]) = 2
         /\ m_handlers[T][1].muted /= m_handlers[T][2].muted

\* The sampled contents hold the byte x in no string, so a buffer with an x
\* holds invalid JSON syntax, whatever follows.
InvalidSyntax(buffer) == \E i \in 1..Len(buffer) : buffer[i] = "x"

\* C17: from a buffer that holds invalid JSON syntax, no step clears the
\* buffer or puts a message into the inbound queue: the content stays at the
\* head of the buffer, so the same holds after every later read and parse
\* attempt, whatever the peer sends.
C17_MalformedInputStalls ==
    [][InvalidSyntax(m_buffer) =>
         /\ m_buffer' /= <<>>
         /\ IsPrefix(m_buffer, m_buffer')
         /\ inbound_log' = inbound_log]_vars

\* Malformed bytes are followed by a complete message in the buffer, every
\* byte of a further complete message has been read, and no message was
\* queued.
C17_Witness ==
    /\ m_buffer = Bad \o Sp \o V2 \o Sp
    /\ last_recv = "data"
    /\ sock_in = <<>>
    /\ inbound_log = <<>>

C19_BoundedBuffer ==
    /\ [](Len(m_buffer) <= Capacity)
    /\ [][Len(sock_in) - Len(sock_in') <= Capacity - Len(m_buffer)]_vars

\* With one byte of the buffer free and two bytes pending, a read has taken
\* one byte.
C19_Witness ==
    /\ Len(m_buffer) = Capacity - 1
    /\ last_recv = "data"
    /\ sock_in = Bad

\* C20: a proccess call whose recv would block, fails or returns 0 bytes
\* attempts no parse: the buffer, both queues and the handler registry are
\* as they were before the call, and no byte was taken from the socket.
C20_IdleReadChangesNothing ==
    [][(last_recv' /= last_recv
          /\ (last_recv' = "wouldblock" \/ last_recv' = "error" \/ last_recv' = "eof"))
         => /\ m_buffer' = m_buffer
            /\ m_ingress' = m_ingress
            /\ inbound_log' = inbound_log
            /\ m_egress' = m_egress
            /\ m_handlers' = m_handlers
            /\ sock_in' = sock_in]_vars

\* A read has failed while the buffer held a complete message: the message
\* is still in the buffer and was not queued.
C20_Witness ==
    /\ last_recv = "error"
    /\ m_buffer = V1 \o Sp
    /\ m_ingress /= <<>>
    /\ inbound_log = LogOf(m_ingress, 1)
    /\ Len(inbound_log) = 1

C22_DispatchDrains ==
    [][DispatchCall =>
         /\ m_ingress' = <<>>
         /\ pc' = "idle"
         /\ \A i \in 1..Len(m_ingress) :
              LET cs == CallsFor(NewCalls, m_ingress[i].id)
              IN /\ Len(cs) = Len(Registered(m_ingress[i].type))
                 /\ \A j \in 1..Len(cs) : cs[j].entity = m_ingress[i].entity
         /\ \A p \in 1..Len(NewCalls) :
              \E i \in 1..Len(m_ingress) : NewCalls[p].msg = m_ingress[i].id
         /\ \A p, q \in 1..Len(NewCalls) :
              p < q => NewCalls[p].msg <= NewCalls[q].msg]_vars

\* Two queued messages, each of a type with a handler, were handled by one
\* dispatch call, which left the queue empty.
C22_Witness ==
    /\ last_recv = "none"
    /\ Len(inbound_log) = 2
    /\ m_ingress = <<>>
    /\ Len(calls) = 2
    /\ calls[1].msg = 1
    /\ calls[2].msg = 2

Connected == IF opens > 0 /\ closes[opens] = 0 THEN opens ELSE 0

\* C24: a TCPSocket is marked open only while its handle is the connected
\* socket of the most recent successful open, not yet closed; SDLNet_TCP_Send
\* is called on such a socket only, and SDLNet_TCP_Close at most once on
\* each opened socket.
C24_OpenFlagMatchesHandle ==
    /\ m_open => (m_socket /= 0 /\ m_socket = Connected)
    /\ \A h \in 1..opens : closes[h] <= 1
    /\ \A i \in 1..Len(transmitted) : transmitted[i] /= 0
    /\ tcp_ret /= "crash"

====
